---------------------------- MODULE Spec2Model ----------------------------
(***************************************************************************)
(* Vision records contract (contracts/vision_records): role based access   *)
(* control with delegation, patient controlled access grants with lazy     *)
(* expiry, and the append-only version history of every record.            *)
(*                                                                         *)
(* Persistent and instance storage are modelled as partial functions       *)
(* (a key is present iff it is in the DOMAIN).  Every entry point is one   *)
(* action; the host runs invocations one at a time, to completion.         *)
(***************************************************************************)
EXTENDS Integers, Sequences, FiniteSets, TLC

\* ------------------------------------------------------------------ bounds

\* Largest ledger timestamp the model lets the clock reach.
MaxNow == 1
\* Most versions stored, over all records.
MaxVersions == 3
\* Most versions stored where permission overrides and delegations are in play.
MaxAuthVersions == 2
\* Most successful permission-override and delegation calls.
MaxRbacOps == 1
\* Width of the model's u64 (timestamps, durations); arithmetic is % 2^U64Bits.
U64Bits == 3

U64Mod == 2 ^ U64Bits
U64Max == U64Mod - 1

\* ------------------------------------------------------------------ values

Users == {"a1", "a2", "a3"}

Roles == {"Admin", "Optometrist", "Patient"}

Permissions == {"ManageUsers", "WriteRecord", "ManageAccess", "SystemAdmin"}

AccessLevels == {"None", "Read", "Write", "Full"}

RecordTypes == {"Examination", "Prescription"}

\* Content hashes; "" is the empty string add_record and update_record reject.
Hashes == {"", "h1", "h2"}

Errors == {"Unauthorized", "UserNotFound", "RecordNotFound", "InvalidInput",
           "VersionNotFound", "AlreadyInitialized"}

\* ------------------------------------------------------------------- state

VARIABLES
    initialized,   \* instance storage INIT
    admin,         \* instance storage ADMIN ("" while unset)
    userReg,       \* persistent ("USER", address) -> User
    roleOf,        \* RBAC store: assigned role per user
    granted,       \* RBAC store: explicit-grant overrides per user
    revoked,       \* RBAC store: explicit-revoke overrides per user
    delegations,   \* RBAC store: <<delegator, delegatee>> -> [role, expires_at]
    recCtr,        \* instance storage REC_CTR (0 while unset)
    records,       \* persistent ("RECORD", id) -> VisionRecord
    patRecs,       \* persistent ("PAT_REC", patient) -> Vec<u64>
    history,       \* persistent (REC_HIST, id) -> Vec<RecordVersion>
    grants,        \* persistent ("ACCESS", patient, grantee) -> AccessGrant
    now,           \* env.ledger().timestamp()
    rbacOps,       \* count of successful override / delegation calls
    last           \* the last invocation that returned Ok: entry point, arguments, result

rbacVars == <<userReg, roleOf, granted, revoked, delegations>>
recordVars == <<recCtr, records, patRecs, history>>
storage == <<initialized, admin, rbacVars, recordVars, grants>>
vars == <<storage, now, rbacOps, last>>

\* A partial function with one key set (storage set(key, value)).
Put(f, k, v) == [x \in DOMAIN f \cup {k} |-> IF x = k THEN v ELSE f[x]]

\* A partial function with one key removed (storage remove(key)).
Remove(f, k) == [x \in DOMAIN f \ {k} |-> f[x]]


\* ------------------------------------------------- RBAC (rbac module)

\* Permission catalog: the default permissions of a role.
defaults_for(role) ==
    CASE role = "Admin" -> {"SystemAdmin", "ManageUsers", "WriteRecord", "ManageAccess"}
      [] role = "Optometrist" -> {"WriteRecord"}
      [] OTHER -> {}

\* has_permission: role default with the overrides applied, revoke > grant > default.
has_permission(user, permission) ==
    /\ user \in DOMAIN roleOf
    /\ permission \notin revoked[user]
    /\ \/ permission \in granted[user]
       \/ permission \in defaults_for(roleOf[user])

\* has_delegated_permission: a live delegation from owner to actor whose role's
\* default permissions include the permission.
has_delegated_permission(owner, actor, permission) ==
    /\ <<owner, actor>> \in DOMAIN delegations
    /\ now < delegations[<<owner, actor>>].expires_at
    /\ permission \in defaults_for(delegations[<<owner, actor>>].role)

\* assign_role: sets or overwrites the user's role, keeping overrides and delegations.
assign_role_roleOf(user, role) == Put(roleOf, user, role)

assign_role_granted(user) ==
    IF user \in DOMAIN granted THEN granted ELSE Put(granted, user, {})

assign_role_revoked(user) ==
    IF user \in DOMAIN revoked THEN revoked ELSE Put(revoked, user, {})

\* ------------------------------------------------- authorization decision

\* can_write_record without the blanket system authority.
can_write_record_no_admin(caller, provider) ==
    IF caller = provider
    THEN has_permission(caller, "WriteRecord")
    ELSE has_delegated_permission(provider, caller, "WriteRecord")

can_write_record(caller, provider) ==
    IF caller = provider
    THEN has_permission(caller, "WriteRecord")
    ELSE \/ has_delegated_permission(provider, caller, "WriteRecord")
         \/ has_permission(caller, "SystemAdmin")

\* The authorization check at the head of grant_access.
\* The grant_access check asking the patient for ManageAccess too.
grant_access_has_perm_checked_self(caller, patient) ==
    \/ caller = patient /\ has_permission(caller, "ManageAccess")
    \/ has_delegated_permission(patient, caller, "ManageAccess")
    \/ has_permission(caller, "SystemAdmin")

grant_access_has_perm(caller, patient) ==
    IF caller = patient
    THEN TRUE
    ELSE \/ has_delegated_permission(patient, caller, "ManageAccess")
         \/ has_permission(caller, "SystemAdmin")

\* ------------------------------------------------- version history log

\* The history stored under a record id in the storage hist, empty when the
\* key is absent (get_history's unwrap_or).
HistoryIn(hist, record_id) ==
    IF record_id \in DOMAIN hist THEN hist[record_id] ELSE <<>>

\* get_history: the stored history, empty when the key is absent.
get_history(record_id) == HistoryIn(history, record_id)

\* latest_version: 0 stands for None.
latest_version(record_id) ==
    IF get_history(record_id) = <<>> THEN 0 ELSE Len(get_history(record_id))

\* Indexes of the entries of a history whose version field is the one asked for.
version_hits(h, version) == {i \in 1..Len(h) : h[i].version = version}

\* The scan of get_version over a history: the first entry, in order, whose
\* version field matches (defined where there is one).
VersionIn(h, version) ==
    LET hits == version_hits(h, version)
        first == CHOOSE i \in hits : \A j \in hits : i <= j
    IN h[first]

\* get_version answers Some.
has_version(record_id, version) == version_hits(get_history(record_id), version) # {}

\* get_version answering with the newest entry whenever the version exists.
get_version_newest(record_id, version) ==
    get_history(record_id)[Len(get_history(record_id))]

\* get_version: the entry the scan finds (used where has_version holds).
get_version(record_id, version) == VersionIn(get_history(record_id), version)

\* new_entry numbering from the length itself (0-based, the first two alike).
new_entry_zero_based(record_id, data_hash, modified_by, modified_at) ==
    [record_id |-> record_id,
     version |-> IF get_history(record_id) = <<>> THEN 1 ELSE Len(get_history(record_id)),
     data_hash |-> data_hash,
     modified_by |-> modified_by,
     modified_at |-> modified_at]

\* The entry append_version builds: version = history.len() + 1.
new_entry(record_id, data_hash, modified_by, modified_at) ==
    [record_id |-> record_id,
     version |-> Len(get_history(record_id)) + 1,
     data_hash |-> data_hash,
     modified_by |-> modified_by,
     modified_at |-> modified_at]

\* append_version writing the new entry over the newest one.
append_version_overwrite(record_id, data_hash, modified_by, modified_at) ==
    LET h == get_history(record_id) IN
    Put(history, record_id,
        Append(IF Len(h) < 2 THEN h ELSE SubSeq(h, 1, Len(h) - 1),
               [record_id |-> record_id, version |-> Len(h) + 1,
                data_hash |-> data_hash, modified_by |-> modified_by,
                modified_at |-> modified_at]))

\* append_version storing the history under a key every record shares.
append_version_shared_key(record_id, data_hash, modified_by, modified_at) ==
    [x \in DOMAIN history \cup {record_id} |->
       Append(get_history(record_id),
              new_entry(record_id, data_hash, modified_by, modified_at))]

\* append_version: the history storage after the push_back and set.
append_version(record_id, data_hash, modified_by, modified_at) ==
    Put(history, record_id,
        Append(get_history(record_id),
               new_entry(record_id, data_hash, modified_by, modified_at)))

\* compare_versions flagging a change when the two timestamps differ.
compare_versions_by_timestamp(record_id, from_version, to_version) ==
    LET from == get_version(record_id, from_version)
        to == get_version(record_id, to_version)
    IN [record_id |-> record_id,
        from_version |-> from_version,
        to_version |-> to_version,
        from_data_hash |-> from.data_hash,
        to_data_hash |-> to.data_hash,
        from_modified_at |-> from.modified_at,
        to_modified_at |-> to.modified_at,
        changed |-> from.modified_at # to.modified_at]

\* compare_versions (only used where both versions exist; None otherwise).
compare_versions(record_id, from_version, to_version) ==
    LET from == get_version(record_id, from_version)
        to == get_version(record_id, to_version)
    IN [record_id |-> record_id,
        from_version |-> from_version,
        to_version |-> to_version,
        from_data_hash |-> from.data_hash,
        to_data_hash |-> to.data_hash,
        from_modified_at |-> from.modified_at,
        to_modified_at |-> to.modified_at,
        changed |-> from.data_hash # to.data_hash]

compare_versions_some(record_id, from_version, to_version) ==
    has_version(record_id, from_version) /\ has_version(record_id, to_version)

\* ------------------------------------------------- invocations

\* The record of an invocation: entry point, authenticated caller, the other
\* addresses, record id, number (version or duration), string (hash, role,
\* permission or level), result, returned number, and the ledger timestamp
\* the invocation ran at.
Call(op, caller, u1, u2, id, n, s, ret, val) ==
    [op |-> op, caller |-> caller, u1 |-> u1, u2 |-> u2, id |-> id, n |-> n,
     s |-> s, ret |-> ret, val |-> val, at |-> now]

\* What an invocation returns: "Ok" with a number (0 for unit), an error, or
\* "Panic" when it traps.
Ok(val) == [ret |-> "Ok", val |-> val]
Err(e) == [ret |-> e, val |-> 0]

\* An invocation that returns Err or traps: the host commits nothing of it.
Fails == UNCHANGED vars

\* initialize: fails once INIT is set.
initialize_result(a) ==
    IF initialized THEN Err("AlreadyInitialized") ELSE Ok(0)

\* initialize: sets ADMIN and INIT and gives the admin the Admin role.
initialize(a) ==
    IF initialize_result(a).ret # "Ok"
    THEN Fails
    ELSE /\ admin' = a
         /\ initialized' = TRUE
         /\ roleOf' = assign_role_roleOf(a, "Admin")
         /\ granted' = assign_role_granted(a)
         /\ revoked' = assign_role_revoked(a)
         /\ last' = Call("initialize", a, "", "", 0, 0, "", "Ok", 0)
         /\ UNCHANGED <<userReg, delegations, recordVars, grants, now, rbacOps>>

\* register_user: ManageUsers only.
register_user_result(caller, user, role) ==
    IF ~has_permission(caller, "ManageUsers") THEN Err("Unauthorized") ELSE Ok(0)

\* register_user: stores the User and assigns the role.
register_user(caller, user, role) ==
    IF register_user_result(caller, user, role).ret # "Ok"
    THEN Fails
    ELSE /\ userReg' = Put(userReg, user,
                           [address |-> user, role |-> role,
                            registered_at |-> now, is_active |-> TRUE])
         /\ roleOf' = assign_role_roleOf(user, role)
         /\ granted' = assign_role_granted(user)
         /\ revoked' = assign_role_revoked(user)
         /\ last' = Call("register_user", caller, user, "", 0, 0, role, "Ok", 0)
         /\ UNCHANGED <<initialized, admin, delegations, recordVars, grants,
                        now, rbacOps>>

\* grant_custom_permission and revoke_custom_permission: ManageUsers only;
\* UserNotFound when the user has no RBAC record.
custom_permission_result(caller, user, permission) ==
    IF ~has_permission(caller, "ManageUsers") THEN Err("Unauthorized")
    ELSE IF user \notin DOMAIN roleOf THEN Err("UserNotFound")
    ELSE Ok(0)

\* grant_custom_permission: adds an explicit-grant override.
grant_custom_permission(caller, user, permission) ==
    IF custom_permission_result(caller, user, permission).ret # "Ok"
    THEN Fails
    ELSE /\ granted' = [granted EXCEPT ![user] = @ \cup {permission}]
         /\ rbacOps' = rbacOps + 1
         /\ last' = Call("grant_custom_permission", caller, user, "", 0, 0, permission,
                         "Ok", 0)
         /\ UNCHANGED <<initialized, admin, userReg, roleOf, revoked, delegations,
                        recordVars, grants, now>>

\* revoke_custom_permission: adds an explicit-revoke override.
revoke_custom_permission(caller, user, permission) ==
    IF custom_permission_result(caller, user, permission).ret # "Ok"
    THEN Fails
    ELSE /\ revoked' = [revoked EXCEPT ![user] = @ \cup {permission}]
         /\ rbacOps' = rbacOps + 1
         /\ last' = Call("revoke_custom_permission", caller, user, "", 0, 0, permission,
                         "Ok", 0)
         /\ UNCHANGED <<initialized, admin, userReg, roleOf, granted, delegations,
                        recordVars, grants, now>>

\* delegate_role: the delegator records a delegation; nothing else is checked.
delegate_role(delegator, delegatee, role, expires_at) ==
    /\ delegations' = Put(delegations, <<delegator, delegatee>>,
                          [role |-> role, expires_at |-> expires_at])
    /\ rbacOps' = rbacOps + 1
    /\ last' = Call("delegate_role", delegator, delegatee, "", 0, expires_at, role, "Ok", 0)
    /\ UNCHANGED <<initialized, admin, userReg, roleOf, granted, revoked,
                   recordVars, grants, now>>

\* add_record handing out the counter as it stands, without advancing it.
add_record_result_same_id(caller, patient, provider, record_type, data_hash) ==
    IF data_hash = "" THEN Err("InvalidInput")
    ELSE IF ~can_write_record(caller, provider) THEN Err("Unauthorized")
    ELSE Ok(IF recCtr = 0 THEN 1 ELSE recCtr)

\* add_record's checks, in order: empty hash, then can_write_record against
\* the provider argument; Ok carries the new id, REC_CTR + 1.
add_record_result(caller, patient, provider, record_type, data_hash) ==
    IF data_hash = "" THEN Err("InvalidInput")
    ELSE IF ~can_write_record(caller, provider) THEN Err("Unauthorized")
    ELSE Ok(recCtr + 1)

\* add_record taking the next id before the authorization check.
add_record_counter_first(caller, patient, provider, record_type, data_hash) ==
    LET res == add_record_result(caller, patient, provider, record_type, data_hash)
        record_id == recCtr + 1
    IN IF res.ret = "InvalidInput"
       THEN Fails
       ELSE IF res.ret # "Ok"
       THEN /\ recCtr' = record_id
            /\ UNCHANGED <<initialized, admin, rbacVars, records, patRecs, history,
                           grants, now, rbacOps, last>>
       ELSE /\ recCtr' = record_id
            /\ records' = Put(records, record_id,
                              [id |-> record_id, patient |-> patient,
                               provider |-> provider, record_type |-> record_type,
                               data_hash |-> data_hash, created_at |-> now,
                               updated_at |-> now])
            /\ patRecs' = Put(patRecs, patient,
                              Append(IF patient \in DOMAIN patRecs
                                     THEN patRecs[patient] ELSE <<>>, record_id))
            /\ history' = append_version(record_id, data_hash, caller, now)
            /\ last' = Call("add_record", caller, patient, provider, record_id, 0,
                            data_hash, "Ok", record_id)
            /\ UNCHANGED <<initialized, admin, rbacVars, grants, now, rbacOps>>

\* add_record: takes the next id, stores the record, extends the patient's
\* list and appends version 1.
add_record(caller, patient, provider, record_type, data_hash) ==
    LET res == add_record_result(caller, patient, provider, record_type, data_hash)
        record_id == res.val
    IN IF res.ret # "Ok"
       THEN Fails
       ELSE /\ recCtr' = record_id
            /\ records' = Put(records, record_id,
                              [id |-> record_id, patient |-> patient,
                               provider |-> provider, record_type |-> record_type,
                               data_hash |-> data_hash, created_at |-> now,
                               updated_at |-> now])
            /\ patRecs' = Put(patRecs, patient,
                              Append(IF patient \in DOMAIN patRecs
                                     THEN patRecs[patient] ELSE <<>>, record_id))
            /\ history' = append_version(record_id, data_hash, caller, now)
            /\ last' = Call("add_record", caller, patient, provider, record_id, 0,
                            data_hash, "Ok", record_id)
            /\ UNCHANGED <<initialized, admin, rbacVars, grants, now, rbacOps>>

\* update_record checking the caller against the record's patient.
update_record_result_patient(caller, record_id, data_hash) ==
    IF data_hash = "" THEN Err("InvalidInput")
    ELSE IF record_id \notin DOMAIN records THEN Err("RecordNotFound")
    ELSE IF ~can_write_record(caller, records[record_id].patient)
    THEN Err("Unauthorized")
    ELSE Ok(new_entry(record_id, data_hash, caller, now).version)

\* update_record's checks, in order: empty hash, the record exists, then
\* can_write_record against the stored provider; Ok carries the version
\* append_version returns.
update_record_result(caller, record_id, data_hash) ==
    IF data_hash = "" THEN Err("InvalidInput")
    ELSE IF record_id \notin DOMAIN records THEN Err("RecordNotFound")
    ELSE IF ~can_write_record(caller, records[record_id].provider)
    THEN Err("Unauthorized")
    ELSE Ok(new_entry(record_id, data_hash, caller, now).version)

\* update_record signing the new version with the record's provider.
update_record_signed_by_provider(caller, record_id, data_hash) ==
    LET res == update_record_result(caller, record_id, data_hash)
    IN IF res.ret # "Ok"
       THEN Fails
       ELSE /\ records' = [records EXCEPT ![record_id].data_hash = data_hash,
                                          ![record_id].updated_at = now]
            /\ history' = append_version(record_id, data_hash,
                                         records[record_id].provider, now)
            /\ last' = Call("update_record", caller, "", "", record_id, 0, data_hash,
                            "Ok", res.val)
            /\ UNCHANGED <<initialized, admin, rbacVars, recCtr, patRecs, grants,
                           now, rbacOps>>

\* update_record making the caller the record's provider.
update_record_reassigning(caller, record_id, data_hash) ==
    LET res == update_record_result(caller, record_id, data_hash)
    IN IF res.ret # "Ok"
       THEN Fails
       ELSE /\ records' = [records EXCEPT ![record_id].data_hash = data_hash,
                                          ![record_id].updated_at = now,
                                          ![record_id].provider = caller]
            /\ history' = append_version(record_id, data_hash, caller, now)
            /\ last' = Call("update_record", caller, "", "", record_id, 0, data_hash,
                            "Ok", res.val)
            /\ UNCHANGED <<initialized, admin, rbacVars, recCtr, patRecs, grants,
                           now, rbacOps>>

\* update_record: rewrites data_hash and updated_at and appends a version.
update_record(caller, record_id, data_hash) ==
    LET res == update_record_result(caller, record_id, data_hash)
    IN IF res.ret # "Ok"
       THEN Fails
       ELSE /\ records' = [records EXCEPT ![record_id].data_hash = data_hash,
                                          ![record_id].updated_at = now]
            /\ history' = append_version(record_id, data_hash, caller, now)
            /\ last' = Call("update_record", caller, "", "", record_id, 0, data_hash,
                            "Ok", res.val)
            /\ UNCHANGED <<initialized, admin, rbacVars, recCtr, patRecs, grants,
                           now, rbacOps>>

\* rollback_record open to every writer as well as to system admins.
rollback_record_result_writers(caller, record_id, target_version) ==
    IF ~(has_permission(caller, "SystemAdmin") \/ has_permission(caller, "WriteRecord"))
    THEN Err("Unauthorized")
    ELSE IF ~has_version(record_id, target_version) THEN Err("VersionNotFound")
    ELSE IF record_id \notin DOMAIN records THEN Err("RecordNotFound")
    ELSE Ok(new_entry(record_id, get_version(record_id, target_version).data_hash,
                      caller, now).version)

\* rollback_record loading the record before it looks for the target version.
rollback_record_result_record_first(caller, record_id, target_version) ==
    IF ~has_permission(caller, "SystemAdmin") THEN Err("Unauthorized")
    ELSE IF record_id \notin DOMAIN records THEN Err("RecordNotFound")
    ELSE IF ~has_version(record_id, target_version) THEN Err("VersionNotFound")
    ELSE Ok(new_entry(record_id, get_version(record_id, target_version).data_hash,
                      caller, now).version)

\* rollback_record's checks, in order: SystemAdmin, the target version exists,
\* the record exists; Ok carries the version append_version returns.
rollback_record_result(caller, record_id, target_version) ==
    IF ~has_permission(caller, "SystemAdmin") THEN Err("Unauthorized")
    ELSE IF ~has_version(record_id, target_version) THEN Err("VersionNotFound")
    ELSE IF record_id \notin DOMAIN records THEN Err("RecordNotFound")
    ELSE Ok(new_entry(record_id, get_version(record_id, target_version).data_hash,
                      caller, now).version)

\* rollback_record appending the version and leaving the live record as it is.
rollback_record_log_only(caller, record_id, target_version) ==
    LET res == rollback_record_result(caller, record_id, target_version)
    IN IF res.ret # "Ok"
       THEN Fails
       ELSE LET target == get_version(record_id, target_version) IN
            /\ history' = append_version(record_id, target.data_hash, caller, now)
            /\ last' = Call("rollback_record", caller, "", "", record_id,
                            target_version, target.data_hash, "Ok", res.val)
            /\ UNCHANGED <<initialized, admin, rbacVars, recCtr, records, patRecs,
                           grants, now, rbacOps>>

\* rollback_record: rewrites data_hash (the target's) and updated_at and
\* appends a version carrying the target's hash.
rollback_record(caller, record_id, target_version) ==
    LET res == rollback_record_result(caller, record_id, target_version)
    IN IF res.ret # "Ok"
       THEN Fails
       ELSE LET target == get_version(record_id, target_version) IN
            /\ records' = [records EXCEPT ![record_id].data_hash = target.data_hash,
                                          ![record_id].updated_at = now]
            /\ history' = append_version(record_id, target.data_hash, caller, now)
            /\ last' = Call("rollback_record", caller, "", "", record_id,
                            target_version, target.data_hash, "Ok", res.val)
            /\ UNCHANGED <<initialized, admin, rbacVars, recCtr, patRecs, grants,
                           now, rbacOps>>

\* ------------------------------------------------- access grant registry

\* expires_at as grant_access computes it: unchecked u64 addition, which wraps
\* when overflow checks are off.
grant_expires_at(duration_seconds) == (now + duration_seconds) % U64Mod

\* A grant that keeps the later expiry of an earlier grant of the pair.
new_grant_keep_later_expiry(patient, grantee, level, duration_seconds) ==
    [patient |-> patient, grantee |-> grantee, level |-> level,
     granted_at |-> now,
     expires_at |->
       IF /\ <<patient, grantee>> \in DOMAIN grants
          /\ grants[<<patient, grantee>>].expires_at > grant_expires_at(duration_seconds)
       THEN grants[<<patient, grantee>>].expires_at
       ELSE grant_expires_at(duration_seconds)]

\* The grant grant_access stores.
new_grant(patient, grantee, level, duration_seconds) ==
    [patient |-> patient, grantee |-> grantee, level |-> level,
     granted_at |-> now, expires_at |-> grant_expires_at(duration_seconds)]

\* grant_access's checks: the patient, a ManageAccess delegate of the patient
\* or a SystemAdmin may grant.  The sum now + duration_seconds is unchecked:
\* past the u64 maximum the invocation traps in a build with overflow checks
\* and wraps in a build without.
grant_access_result(caller, patient, grantee, level, duration_seconds, overflow_checks) ==
    IF ~grant_access_has_perm(caller, patient) THEN Err("Unauthorized")
    ELSE IF now + duration_seconds > U64Max /\ overflow_checks THEN Err("Panic")
    ELSE Ok(0)

\* grant_access: stores the grant of the pair, replacing any earlier one.
grant_access(caller, patient, grantee, level, duration_seconds, overflow_checks) ==
    IF grant_access_result(caller, patient, grantee, level, duration_seconds,
                           overflow_checks).ret # "Ok"
    THEN Fails
    ELSE /\ grants' = Put(grants, <<patient, grantee>>,
                          new_grant(patient, grantee, level, duration_seconds))
         /\ last' = Call("grant_access", caller, patient, grantee, 0,
                         duration_seconds, level, "Ok", 0)
         /\ UNCHANGED <<initialized, admin, rbacVars, recordVars, now, rbacOps>>

\* check_access: the stored level while expires_at > now, None otherwise.
\* check_access counting the expiry instant itself as live.
check_access_inclusive(patient, grantee) ==
    IF /\ <<patient, grantee>> \in DOMAIN grants
       /\ grants[<<patient, grantee>>].expires_at >= now
    THEN grants[<<patient, grantee>>].level
    ELSE "None"

check_access(patient, grantee) ==
    IF /\ <<patient, grantee>> \in DOMAIN grants
       /\ grants[<<patient, grantee>>].expires_at > now
    THEN grants[<<patient, grantee>>].level
    ELSE "None"

\* revoke_access removing every grant the patient has made.
revoke_access_every_grantee(patient, grantee) ==
    /\ grants' = [pair \in {q \in DOMAIN grants : q[1] # patient} |-> grants[pair]]
    /\ last' = Call("revoke_access", patient, patient, grantee, 0, 0, "", "Ok", 0)
    /\ UNCHANGED <<initialized, admin, rbacVars, recordVars, now, rbacOps>>

\* revoke_access: the patient removes the grant entry of the pair.
revoke_access(patient, grantee) ==
    /\ grants' = Remove(grants, <<patient, grantee>>)
    /\ last' = Call("revoke_access", patient, patient, grantee, 0, 0, "", "Ok", 0)
    /\ UNCHANGED <<initialized, admin, rbacVars, recordVars, now, rbacOps>>

\* ------------------------------------------------- read entry points

\* get_record: the stored record, or RecordNotFound.
get_record_result(record_id) ==
    IF record_id \in DOMAIN records
    THEN [ret |-> "Ok", val |-> records[record_id]]
    ELSE [ret |-> "RecordNotFound", val |-> <<>>]

\* get_record_history answering the (empty) history of an id without a record.
get_record_history_result_unchecked(record_id) ==
    [ret |-> "Ok", val |-> get_history(record_id)]

\* get_record_history: RecordNotFound without a record, else the history.
get_record_history_result(record_id) ==
    IF record_id \notin DOMAIN records
    THEN [ret |-> "RecordNotFound", val |-> <<>>]
    ELSE [ret |-> "Ok", val |-> get_history(record_id)]

\* get_record_version: RecordNotFound without a record, VersionNotFound when
\* get_version finds nothing, else the entry.
get_record_version_result(record_id, version) ==
    IF record_id \notin DOMAIN records
    THEN [ret |-> "RecordNotFound", val |-> <<>>]
    ELSE IF ~has_version(record_id, version)
    THEN [ret |-> "VersionNotFound", val |-> <<>>]
    ELSE [ret |-> "Ok", val |-> get_version(record_id, version)]

\* get_latest_record_version: RecordNotFound without a record,
\* VersionNotFound when the history is empty, else the latest version number.
get_latest_record_version_result(record_id) ==
    IF record_id \notin DOMAIN records THEN Err("RecordNotFound")
    ELSE IF latest_version(record_id) = 0 THEN Err("VersionNotFound")
    ELSE Ok(latest_version(record_id))

\* compare_record_versions: RecordNotFound without a record, VersionNotFound
\* when compare_versions returns None, else the comparison.
compare_record_versions_result(record_id, from_version, to_version) ==
    IF record_id \notin DOMAIN records
    THEN [ret |-> "RecordNotFound", val |-> <<>>]
    ELSE IF ~compare_versions_some(record_id, from_version, to_version)
    THEN [ret |-> "VersionNotFound", val |-> <<>>]
    ELSE [ret |-> "Ok", val |-> compare_versions(record_id, from_version, to_version)]

\* check_permission: has_permission of the user.
check_permission(user, permission) == has_permission(user, permission)

\* get_record_count: the counter, 0 when it was never set.
get_record_count == recCtr

\* A read entry point returns and writes nothing; the invocation record
\* keeps its arguments and its Ok or error (for compare_record_versions the
\* two version numbers are kept in n and val, for get_latest_record_version
\* the version returned in val).
get_record(record_id) ==
    /\ last' = Call("get_record", "", "", "", record_id, 0, "",
                    get_record_result(record_id).ret, 0)
    /\ UNCHANGED <<storage, now, rbacOps>>

get_record_history(record_id) ==
    /\ last' = Call("get_record_history", "", "", "", record_id, 0, "",
                    get_record_history_result(record_id).ret, 0)
    /\ UNCHANGED <<storage, now, rbacOps>>

get_record_version(record_id, version) ==
    /\ last' = Call("get_record_version", "", "", "", record_id, version, "",
                    get_record_version_result(record_id, version).ret, 0)
    /\ UNCHANGED <<storage, now, rbacOps>>

get_latest_record_version(record_id) ==
    /\ last' = Call("get_latest_record_version", "", "", "", record_id, 0, "",
                    get_latest_record_version_result(record_id).ret,
                    get_latest_record_version_result(record_id).val)
    /\ UNCHANGED <<storage, now, rbacOps>>

compare_record_versions(record_id, from_version, to_version) ==
    /\ last' = Call("compare_record_versions", "", "", "", record_id, from_version, "",
                    compare_record_versions_result(record_id, from_version,
                                                   to_version).ret,
                    to_version)
    /\ UNCHANGED <<storage, now, rbacOps>>

\* check_access as an entry point that drops the entry it finds expired.
check_access_read_purging(patient, grantee) ==
    /\ last' = Call("check_access", "", patient, grantee, 0, 0,
                    check_access(patient, grantee), "Ok", 0)
    /\ grants' = IF /\ <<patient, grantee>> \in DOMAIN grants
                    /\ grants[<<patient, grantee>>].expires_at <= now
                 THEN Remove(grants, <<patient, grantee>>)
                 ELSE grants
    /\ UNCHANGED <<initialized, admin, rbacVars, recordVars, now, rbacOps>>

\* check_access as an entry point: the level read is kept in s.
check_access_read(patient, grantee) ==
    /\ last' = Call("check_access", "", patient, grantee, 0, 0,
                    check_access(patient, grantee), "Ok", 0)
    /\ UNCHANGED <<storage, now, rbacOps>>

\* check_permission as an entry point: the permission asked is kept in s and
\* the answer in val (1 for true).
check_permission_read(user, permission) ==
    /\ last' = Call("check_permission", "", user, "", 0, 0, permission, "Ok",
                    IF check_permission(user, permission) THEN 1 ELSE 0)
    /\ UNCHANGED <<storage, now, rbacOps>>

\* The ledger closes and the timestamp advances.
Tick ==
    /\ now < MaxNow
    /\ now' = now + 1
    /\ UNCHANGED <<storage, rbacOps, last>>

\* ------------------------------------------------- specification

\* The deployed contract before initialize: every storage key absent.
Init ==
    /\ initialized = FALSE
    /\ admin = ""
    /\ userReg = <<>>
    /\ roleOf = <<>>
    /\ granted = <<>>
    /\ revoked = <<>>
    /\ delegations = <<>>
    /\ recCtr = 0
    /\ records = <<>>
    /\ patRecs = <<>>
    /\ history = <<>>
    /\ grants = <<>>
    /\ now = 0
    /\ rbacOps = 0
    /\ last = Call("deploy", "", "", "", 0, 0, "", "Ok", 0)

\* Record ids and version numbers the invocations name: the ones that can
\* exist and one past them (version 0 never exists).
RecordIds == 1..(MaxVersions + 1)
Versions == 0..(MaxVersions + 1)

\* Versions stored over all records.
TotalVersions == LET RECURSIVE Sum(_)
                     Sum(S) == IF S = {} THEN 0
                               ELSE LET x == CHOOSE y \in S : TRUE
                                    IN Len(history[x]) + Sum(S \ {x})
                 IN Sum(DOMAIN history)

\* Durations a grant is made for: none, one second, and the u64 maximum.
Durations == {0, 1, U64Max}

\* Expiry timestamps a delegation is made with: one the model's clock reaches
\* and one it never reaches; where the clock stands still, one already
\* reached and one never reached.
DelegationExpiries == {1, U64Max}
AuthDelegationExpiries == {0, U64Max}

\* The address initialize is called with.
InitAdmins == {"a1"}

\* The users register_user is called for, each with the role it registers:
\* the provider, and where it matters the patient too.
Registrations == {<<"a2", "Optometrist">>}
AccessRegistrations == {<<"a2", "Optometrist">>, <<"a3", "Patient">>}

\* The overrides grant_custom_permission and revoke_custom_permission are
\* called with where records are written: system authority for the provider,
\* and the admin's and the provider's write permission taken away.
AuthGrants == {<<"a2", "SystemAdmin">>}
AuthRevokes == {<<"a1", "WriteRecord">>, <<"a2", "WriteRecord">>}

\* The delegations delegate_role is called with where records are written:
\* the provider's authority, the admin's authority, and a role the delegator
\* does not hold.
AuthDelegations == {<<"a2", "a3", "Optometrist">>, <<"a1", "a3", "Admin">>,
                    <<"a3", "a2", "Optometrist">>}

\* The overrides and delegations called with where access is granted: system
\* authority for the patient, the patient's ManageAccess taken away, the
\* patient's delegation of a role with and of one without ManageAccess.
AccessGrants == {<<"a3", "SystemAdmin">>}
AccessRevokes == {<<"a3", "ManageAccess">>, <<"a1", "SystemAdmin">>}
AccessDelegations == {<<"a3", "a2", "Admin">>, <<"a3", "a2", "Optometrist">>}

\* The providers add_record names.
Providers == {"a1", "a2", "a3"}

\* The hashes written where permission overrides and delegations are in play.
AuthHashes == {"", "h1"}

SetupNext(registrations) ==
    \/ \E a \in InitAdmins : initialize(a)
    \/ \E caller \in Users, reg \in registrations :
         register_user(caller, reg[1], reg[2])

RbacNext(custom_grants, custom_revokes, role_delegations, expiries) ==
    \/ /\ rbacOps < MaxRbacOps
       /\ \E caller \in Users, g \in custom_grants :
            grant_custom_permission(caller, g[1], g[2])
    \/ /\ rbacOps < MaxRbacOps
       /\ \E caller \in Users, r \in custom_revokes :
            revoke_custom_permission(caller, r[1], r[2])
    \/ /\ rbacOps < MaxRbacOps
       /\ \E d \in role_delegations, expires_at \in expiries :
            delegate_role(d[1], d[2], d[3], expires_at)

RecordNext(providers, hashes, max_versions) ==
    \/ /\ TotalVersions < max_versions
       /\ \E caller \in Users, provider \in providers, data_hash \in hashes :
            add_record(caller, "a3", provider, "Examination", data_hash)
    \/ /\ TotalVersions < max_versions
       /\ \E caller \in Users, record_id \in RecordIds, data_hash \in hashes :
            update_record(caller, record_id, data_hash)
    \/ /\ TotalVersions < max_versions
       /\ \E caller \in Users, record_id \in RecordIds, target_version \in Versions :
            rollback_record(caller, record_id, target_version)

AccessNext(levels, durations) ==
    \/ \E caller \in Users, level \in levels,
          duration_seconds \in durations, overflow_checks \in BOOLEAN :
         grant_access(caller, "a3", "a2", level, duration_seconds, overflow_checks)
    \/ revoke_access("a3", "a2")

\* Records and their version histories, written by the admin and the
\* registered provider.
Next == SetupNext(Registrations) \/ RecordNext({"a2"}, Hashes, MaxVersions) \/ Tick

Spec == Init /\ [][Next]_vars

\* The version log of records the admin writes for itself and rolls back, as
\* the ledger time advances.
NextLog == SetupNext(Registrations) \/ RecordNext({"a1"}, Hashes, MaxVersions) \/ Tick

SpecLog == Init /\ [][NextLog]_vars

\* Records written under permission overrides and delegations, within one
\* ledger close (the clock stands still).
NextAuth ==
    \/ SetupNext(Registrations)
    \/ RbacNext(AuthGrants, AuthRevokes, AuthDelegations, AuthDelegationExpiries)
    \/ RecordNext(Providers, AuthHashes, MaxAuthVersions)

SpecAuth == Init /\ [][NextAuth]_vars

\* The access grant registry under permission overrides and delegations.
NextAccess ==
    \/ SetupNext(AccessRegistrations)
    \/ RbacNext(AccessGrants, AccessRevokes, AccessDelegations, DelegationExpiries)
    \/ AccessNext({"Read", "Write"}, Durations)
    \/ Tick

SpecAccess == Init /\ [][NextAccess]_vars

\* The grantees of the patient's grants where several pairs are held.
Grantees == {"a1", "a2"}

\* grant_access and revoke_access over several pairs of one patient.
PairNext(grantees, levels, durations) ==
    \/ \E caller \in Users, grantee \in grantees, level \in levels,
          duration_seconds \in durations, overflow_checks \in BOOLEAN :
         grant_access(caller, "a3", grantee, level, duration_seconds, overflow_checks)
    \/ \E grantee \in grantees : revoke_access("a3", grantee)

\* The grant registry of one patient with two grantees, an admin and the
\* ledger time.
NextPairs ==
    \/ SetupNext(Registrations)
    \/ PairNext(Grantees, {"Read", "Write"}, {1, U64Max})
    \/ Tick

SpecPairs == Init /\ [][NextPairs]_vars

\* The read entry points, over the record ids and version numbers named.
ReadNext(ids, versions) ==
    \/ \E record_id \in ids : get_record(record_id)
    \/ \E record_id \in ids : get_record_history(record_id)
    \/ \E record_id \in ids, version \in versions :
         get_record_version(record_id, version)
    \/ \E record_id \in ids : get_latest_record_version(record_id)
    \/ \E record_id \in ids, from_version \in versions, to_version \in versions :
         compare_record_versions(record_id, from_version, to_version)
    \/ check_access_read("a3", "a2")
    \/ \E user \in {"a1", "a2"} : check_permission_read(user, "WriteRecord")

\* The record ids and version numbers the reads name: the first two ids
\* (each of them may or may not exist), and the version numbers that can
\* exist where reads are made with 0 and one past them.
ReadIds == {1, 2}
ReadVersions == 0..(MaxAuthVersions + 1)

\* Reads between the writes of records and grants, within one ledger close.
NextReads ==
    \/ SetupNext(Registrations)
    \/ RecordNext({"a2"}, Hashes \ {""}, MaxAuthVersions)
    \/ AccessNext({"Read"}, {0})
    \/ ReadNext(ReadIds, ReadVersions)

SpecReads == Init /\ [][NextReads]_vars

\* The patients add_record names where several patients hold records.
Patients == {"a1", "a3"}

\* add_record, update_record and rollback_record over several patients.
PatientRecordNext(patients, providers, hashes, max_versions) ==
    \/ /\ TotalVersions < max_versions
       /\ \E caller \in Users, patient \in patients, provider \in providers,
             data_hash \in hashes :
            add_record(caller, patient, provider, "Examination", data_hash)
    \/ /\ TotalVersions < max_versions
       /\ \E caller \in Users, record_id \in RecordIds, data_hash \in hashes :
            update_record(caller, record_id, data_hash)
    \/ /\ TotalVersions < max_versions
       /\ \E caller \in Users, record_id \in RecordIds, target_version \in Versions :
            rollback_record(caller, record_id, target_version)

\* Records of two patients next to a stored access grant, within one ledger
\* close.
NextShared ==
    \/ SetupNext(Registrations)
    \/ PatientRecordNext(Patients, {"a2"}, Hashes, MaxVersions)
    \/ AccessNext({"Read"}, {1})

SpecShared == Init /\ [][NextShared]_vars

\* Every entry point that writes, within one ledger close.
NextAll == NextAuth \/ AccessNext({"Read"}, {1})

SpecAll == Init /\ [][NextAll]_vars

\* ------------------------------------------------- properties

\* A step that is a successful invocation of the entry point op.
Did(op) == last' # last /\ last'.op = op

IsPrefix(s, t) == Len(s) <= Len(t) /\ SubSeq(t, 1, Len(s)) = s

\* C1: for every record id the stored history carries the version numbers
\* 1, 2, ..., n in order (n its length), each entry names its own record, and
\* latest_version answers n when n > 0 and None (0) when the history is empty.
C1_VersionsAreOneToN ==
    \A id \in RecordIds :
      LET h == get_history(id) IN
      /\ \A i \in 1..Len(h) : h[i].version = i /\ h[i].record_id = id
      /\ latest_version(id) = (IF Len(h) > 0 THEN Len(h) ELSE 0)
      /\ Len(h) > 0 => \A v \in Versions : has_version(id, v) <=> v \in 1..Len(h)

\* C1 witness: a record whose history reached three versions through an
\* update and a rollback, beside a second state of interleaving on it.
C1_Witness ==
    /\ last.op = "rollback_record"
    /\ Len(get_history(last.id)) = 3
    /\ latest_version(last.id) = 3
    /\ \E i \in 1..3 : get_history(last.id)[i].modified_by # get_history(last.id)[1].modified_by

\* C2: the history of every record before a step is a prefix of its history
\* after the step: no entry is removed, reordered, renumbered or changed.
C2_HistoryAppendOnly ==
    [][\A id \in RecordIds :
         IsPrefix(HistoryIn(history, id), HistoryIn(history', id))]_vars

\* C2 witness: a rollback to version 1 was appended on top of an update that
\* had changed the hash, and both older entries are still there.
C2_Witness ==
    /\ last.op = "rollback_record"
    /\ last.n = 1
    /\ Len(get_history(last.id)) = 3
    /\ get_history(last.id)[2].data_hash # get_history(last.id)[1].data_hash
    /\ get_history(last.id)[3].data_hash = get_history(last.id)[1].data_hash

\* C3: a successful rollback_record(caller, id, v) on a history of length n
\* leaves get_record(id).data_hash equal to get_version(id, v).data_hash, the
\* history of length n + 1 with versions 1..n unchanged, and returns n + 1.
C3_RollbackLaw ==
    [][Did("rollback_record") =>
         LET id == last'.id
             v == last'.n
             before == HistoryIn(history, id)
             after == HistoryIn(history', id)
             n == Len(before)
         IN /\ version_hits(after, v) # {}
            /\ records'[id].data_hash = VersionIn(after, v).data_hash
            /\ records'[id].data_hash = VersionIn(before, v).data_hash
            /\ Len(after) = n + 1
            /\ last'.val = n + 1
            /\ SubSeq(after, 1, n) = before]_vars

\* C3 witness: a rollback to a version older than the live one, whose hash
\* differs from the hash that was live before the rollback.
C3_Witness ==
    /\ last.op = "rollback_record"
    /\ last.ret = "Ok"
    /\ LET h == get_history(last.id) IN
       /\ last.n < Len(h) - 1
       /\ h[last.n].data_hash # h[Len(h) - 1].data_hash
       /\ records[last.id].data_hash = h[last.n].data_hash

\* C4: rollback_record answers Unauthorized exactly to the callers without
\* SystemAdmin (the record's provider holding WriteRecord and a delegate of the
\* provider or of an admin among them), and every rollback that is carried out
\* was called by a holder of SystemAdmin.
C4_RollbackOnlySystemAdmin ==
    /\ [](\A caller \in Users, id \in RecordIds, v \in Versions :
            rollback_record_result(caller, id, v).ret = "Unauthorized"
              <=> ~has_permission(caller, "SystemAdmin"))
    /\ [][Did("rollback_record") => has_permission(last'.caller, "SystemAdmin")]_vars

\* C4 witness: a record exists; its provider holds WriteRecord, another user
\* holds a live delegation of the Admin role from an admin, neither holds
\* SystemAdmin, and rollback_record answers both Unauthorized.
C4_Witness ==
    \E id \in DOMAIN records, d \in Users, a \in Users :
      LET p == records[id].provider IN
      /\ has_permission(p, "WriteRecord") /\ ~has_permission(p, "SystemAdmin")
      /\ has_permission(a, "SystemAdmin")
      /\ has_delegated_permission(a, d, "SystemAdmin")
      /\ ~has_permission(d, "SystemAdmin")
      /\ has_version(id, 1)
      /\ rollback_record_result(p, id, 1).ret = "Unauthorized"
      /\ rollback_record_result(d, id, 1).ret = "Unauthorized"

\* The write authorization rule, as the specification words it.
WriteRule(caller, provider) ==
    \/ caller = provider /\ has_permission(caller, "WriteRecord")
    \/ /\ caller # provider
       /\ \/ has_delegated_permission(provider, caller, "WriteRecord")
          \/ has_permission(caller, "SystemAdmin")

\* C5: with a non-empty hash, add_record (against the provider argument) and
\* update_record on an existing record (against the stored provider) answer Ok
\* exactly when the write rule holds and Unauthorized otherwise, and every
\* add or update carried out was allowed by the rule.
C5_WriteAuthorization ==
    /\ [](\A caller \in Users, provider \in Users, h \in Hashes \ {""} :
            add_record_result(caller, "a3", provider, "Examination", h).ret
              = (IF WriteRule(caller, provider) THEN "Ok" ELSE "Unauthorized"))
    /\ [](\A caller \in Users, id \in DOMAIN records, h \in Hashes \ {""} :
            update_record_result(caller, id, h).ret
              = (IF WriteRule(caller, records[id].provider)
                 THEN "Ok" ELSE "Unauthorized"))
    /\ [][Did("add_record") => WriteRule(last'.caller, last'.u2)]_vars
    /\ [][Did("update_record") =>
            WriteRule(last'.caller, records[last'.id].provider)]_vars

\* C5 witness: an update carried out by a delegate of the record's provider
\* who holds neither SystemAdmin nor WriteRecord, on a record whose patient
\* is not its provider.
C5_Witness ==
    /\ last.op = "update_record"
    /\ last.caller # records[last.id].provider
    /\ records[last.id].patient # records[last.id].provider
    /\ ~has_permission(last.caller, "SystemAdmin")
    /\ ~has_permission(last.caller, "WriteRecord")
    /\ has_delegated_permission(records[last.id].provider, last.caller, "WriteRecord")

\* C6 as stated: a holder of SystemAdmin passes can_write_record for every
\* provider, itself included, and the grant_access check for every patient.
C6_AdminPassesEveryCheck ==
    \A u \in Users, o \in Users :
      has_permission(u, "SystemAdmin")
        => can_write_record(u, o) /\ grant_access_has_perm(u, o)

\* C6 amended: a holder of SystemAdmin passes can_write_record for every
\* provider other than itself, passes it for itself exactly when it holds
\* WriteRecord, and passes the grant_access check for every patient.
C6_AdminPassesForOthers ==
    \A u \in Users, o \in Users :
      has_permission(u, "SystemAdmin")
        => /\ o # u => can_write_record(u, o)
           /\ can_write_record(u, u) <=> has_permission(u, "WriteRecord")
           /\ grant_access_has_perm(u, o)

\* C6 witness: a holder of SystemAdmin whose WriteRecord is revoked has added
\* a record naming another provider, and cannot add one naming itself.
C6_Witness ==
    /\ last.op = "add_record"
    /\ last.caller # last.u2
    /\ has_permission(last.caller, "SystemAdmin")
    /\ ~has_permission(last.caller, "WriteRecord")
    /\ ~can_write_record(last.caller, last.caller)
    /\ add_record_result(last.caller, "a3", last.caller, "Examination", "h1").ret
         = "Unauthorized"

\* The checks of the entry point a recorded invocation names pass in the
\* current state, for the arguments recorded.
ChecksPass(call) ==
    CASE call.op = "initialize" -> initialize_result(call.caller).ret = "Ok"
      [] call.op = "register_user" ->
           register_user_result(call.caller, call.u1, call.s).ret = "Ok"
      [] call.op \in {"grant_custom_permission", "revoke_custom_permission"} ->
           custom_permission_result(call.caller, call.u1, call.s).ret = "Ok"
      [] call.op = "delegate_role" -> TRUE
      [] call.op = "add_record" ->
           add_record_result(call.caller, call.u1, call.u2, "Examination", call.s).ret
             = "Ok"
      [] call.op = "update_record" ->
           update_record_result(call.caller, call.id, call.s).ret = "Ok"
      [] call.op = "rollback_record" ->
           rollback_record_result(call.caller, call.id, call.n).ret = "Ok"
      [] call.op = "grant_access" ->
           \E chk \in BOOLEAN :
             grant_access_result(call.caller, call.u1, call.u2, call.s, call.n, chk).ret
               = "Ok"
      [] call.op = "revoke_access" -> TRUE
      [] OTHER -> FALSE

\* C7: an invocation that returns an error leaves the storage as it was:
\* every step that changes any of it (records, histories, the id counter,
\* patient lists, grants, RBAC state) is an invocation whose checks all passed
\* in the state before; an update by a caller the write rule rejects answers
\* Unauthorized, and an add_record whose checks fail leaves the counter.
C7_NoPartialApplication ==
    /\ [][storage' # storage =>
            /\ last' # last
            /\ last'.ret = "Ok"
            /\ ChecksPass(last')]_vars
    /\ [](\A caller \in Users, id \in DOMAIN records, h \in Hashes \ {""} :
            ~WriteRule(caller, records[id].provider)
              => update_record_result(caller, id, h).ret = "Unauthorized")
    /\ [][recCtr' # recCtr => Did("add_record") /\ recCtr' = recCtr + 1]_vars

\* C7 witness: a record with its first version exists while some caller is
\* neither its provider, nor a delegate, nor an admin, so update_record answers
\* that caller Unauthorized; rollback, register_user and grant_access have
\* callers they answer Unauthorized too, and an override for a user without
\* an RBAC record answers UserNotFound.
C7_Witness ==
    \E id \in DOMAIN records, c \in Users :
      /\ Len(get_history(id)) = 1
      /\ c # records[id].provider
      /\ update_record_result(c, id, "h1").ret = "Unauthorized"
      /\ add_record_result(c, "a3", records[id].provider, "Examination", "h1").ret
           = "Unauthorized"
      /\ rollback_record_result(c, id, 1).ret = "Unauthorized"
      /\ register_user_result(c, "a2", "Optometrist").ret = "Unauthorized"
      /\ \E a \in Users : custom_permission_result(a, c, "SystemAdmin").ret = "UserNotFound"
      /\ \E g \in Users : grant_access_result(g, "a3", "a2", "Read", 1, TRUE).ret
                            = "Unauthorized"
      /\ <<"a3", "a2">> \in DOMAIN grants

\* C8: after a grant_access of a duration whose sum with the ledger time fits
\* a u64, the stored expires_at is granted_at + duration_seconds and
\* check_access returns the granted level while now < expires_at and None from
\* expires_at on, the stored entry staying in place; for every stored grant
\* check_access compares strictly.
C8_ExpiryIsStrict ==
    /\ \A pair \in DOMAIN grants :
         check_access(pair[1], pair[2])
           = (IF now < grants[pair].expires_at THEN grants[pair].level ELSE "None")
    /\ last.op = "grant_access" =>
         /\ <<last.u1, last.u2>> \in DOMAIN grants
         /\ LET g == grants[<<last.u1, last.u2>>] IN
            g.granted_at + last.n <= U64Max =>
              /\ g.expires_at = g.granted_at + last.n
              /\ g.level = last.s
              /\ check_access(last.u1, last.u2)
                   = (IF now < g.granted_at + last.n THEN last.s ELSE "None")

\* C8 witness: a Write grant of one second, the ledger time exactly at its
\* expires_at: check_access returns None and the entry is still stored.
C8_Witness ==
    /\ last.op = "grant_access" /\ last.n = 1 /\ last.s = "Write"
    /\ <<last.u1, last.u2>> \in DOMAIN grants
    /\ grants[<<last.u1, last.u2>>].expires_at = grants[<<last.u1, last.u2>>].granted_at + 1
    /\ now = grants[<<last.u1, last.u2>>].expires_at
    /\ check_access(last.u1, last.u2) = "None"

\* The grant authorization rule, as the specification words it.
GrantRule(caller, patient) ==
    \/ caller = patient
    \/ has_delegated_permission(patient, caller, "ManageAccess")
    \/ has_permission(caller, "SystemAdmin")

\* C9: grant_access answers Unauthorized exactly to the callers the grant rule
\* rejects (the patient itself is never rejected, whatever its role or
\* overrides), answers Ok to the others whenever the expiry fits a u64, and
\* every grant stored was made by a caller the rule allows.
C9_GrantAuthorization ==
    /\ [](\A caller \in Users, patient \in Users, grantee \in Users,
            level \in AccessLevels, d \in Durations, chk \in BOOLEAN :
            LET r == grant_access_result(caller, patient, grantee, level, d, chk) IN
            /\ r.ret = "Unauthorized" <=> ~GrantRule(caller, patient)
            /\ GrantRule(caller, patient) /\ now + d <= U64Max => r.ret = "Ok")
    /\ [][Did("grant_access") =>
            /\ GrantRule(last'.caller, last'.u1)
            /\ grants'[<<last'.u1, last'.u2>>].level = last'.s]_vars
    /\ [][(\E pair \in DOMAIN grants' :
             pair \notin DOMAIN grants \/ grants'[pair] # grants[pair])
            => Did("grant_access")]_vars

\* C9 witness: the last grant stored was made by a caller other than the
\* patient who holds no SystemAdmin but a live ManageAccess delegation from
\* the patient, while the patient's own ManageAccess is revoked and the
\* patient may still grant.
C9_Witness ==
    /\ last.op = "grant_access"
    /\ last.caller # last.u1
    /\ ~has_permission(last.caller, "SystemAdmin")
    /\ has_delegated_permission(last.u1, last.caller, "ManageAccess")
    /\ ~has_permission(last.u1, "ManageAccess")
    /\ grant_access_result(last.u1, last.u1, last.u2, "Read", 0, TRUE).ret = "Ok"
    /\ \E c \in Users :
         grant_access_result(c, last.u1, last.u2, "Read", 0, TRUE).ret = "Unauthorized"

\* C10 as stated: an authorized grant_access whose now + duration_seconds
\* exceeds the u64 maximum returns InvalidInput, and no stored grant has an
\* expiry before its grant time.
C10_OverflowIsInvalidInput ==
    /\ \A caller \in Users, d \in Durations, chk \in BOOLEAN :
         grant_access_has_perm(caller, "a3") /\ now + d > U64Max
           => grant_access_result(caller, "a3", "a2", "Read", d, chk).ret = "InvalidInput"
    /\ \A pair \in DOMAIN grants :
         grants[pair].expires_at >= grants[pair].granted_at

\* C11 as stated: whenever can_write_record lets a caller without SystemAdmin
\* write for another provider, that provider holds WriteRecord itself, so no
\* user without WriteRecord enables another to write records naming it.
C11_DelegatorHoldsWriteRecord ==
    \A caller \in Users, provider \in Users :
      /\ caller # provider
      /\ ~has_permission(caller, "SystemAdmin")
      /\ can_write_record(caller, provider)
      => has_permission(provider, "WriteRecord")

\* C12: revoke_access, called by the patient, deletes the grant entry of
\* exactly the pair named and changes nothing else in storage; revoking a pair
\* that has no grant leaves the storage as it was; a pair without an entry
\* reads None from check_access; and every step that deletes a grant entry is
\* a revoke_access by that entry's patient, for that pair.
C12_RevokeDeletesOnePair ==
    /\ [][Did("revoke_access") =>
            /\ last'.caller = last'.u1
            /\ <<last'.u1, last'.u2>> \notin DOMAIN grants'
            /\ DOMAIN grants' = DOMAIN grants \ {<<last'.u1, last'.u2>>}
            /\ \A pair \in DOMAIN grants' : grants'[pair] = grants[pair]
            /\ UNCHANGED <<initialized, admin, rbacVars, recordVars>>
            /\ <<last'.u1, last'.u2>> \notin DOMAIN grants => grants' = grants]_vars
    /\ [][\A pair \in DOMAIN grants :
            pair \notin DOMAIN grants'
              => /\ Did("revoke_access")
                 /\ last'.caller = pair[1]
                 /\ <<last'.u1, last'.u2>> = pair]_vars
    /\ [](\A patient \in Users, grantee \in Users :
            <<patient, grantee>> \notin DOMAIN grants
              => check_access(patient, grantee) = "None")

\* C12 witness: the patient has just revoked one grantee's grant (a second
\* revoke of the pair would change nothing) while its grant to another
\* grantee is still stored and live, and a system admin exists.
C12_Witness ==
    /\ last.op = "revoke_access"
    /\ <<last.u1, last.u2>> \notin DOMAIN grants
    /\ check_access(last.u1, last.u2) = "None"
    /\ \E g \in Users :
         /\ g # last.u2
         /\ <<last.u1, g>> \in DOMAIN grants
         /\ check_access(last.u1, g) # "None"
    /\ \E a \in Users : a # last.u1 /\ has_permission(a, "SystemAdmin")

\* C13: the grants are keyed by their (patient, grantee) pair, one entry each,
\* and the entry of a pair is the last successful grant_access for it: its
\* level and grant time are that call's, its expiry that call's time plus its
\* duration (when the sum fits a u64), whatever an earlier grant of the pair
\* held, and check_access reads only this entry.
C13_LastGrantWins ==
    /\ \A pair \in DOMAIN grants :
         grants[pair].patient = pair[1] /\ grants[pair].grantee = pair[2]
    /\ last.op = "grant_access" =>
         /\ <<last.u1, last.u2>> \in DOMAIN grants
         /\ LET g == grants[<<last.u1, last.u2>>] IN
            /\ g.level = last.s
            /\ g.granted_at = last.at
            /\ last.at + last.n <= U64Max =>
                 /\ g.expires_at = last.at + last.n
                 /\ check_access(last.u1, last.u2)
                      = (IF now < last.at + last.n THEN last.s ELSE "None")

\* C13 witness: the entry of a pair is a Read grant of one second made after
\* the ledger time had advanced and still live, where grants of Write and of
\* the longest duration are made for the same pair, and another pair of the
\* patient holds a Write grant.
C13_Witness ==
    /\ last.op = "grant_access" /\ last.s = "Read" /\ last.n = 1 /\ last.at > 0
    /\ grants[<<last.u1, last.u2>>].expires_at = last.at + 1
    /\ check_access(last.u1, last.u2) = "Read"
    /\ \E g \in Users :
         /\ g # last.u2
         /\ <<last.u1, g>> \in DOMAIN grants
         /\ grants[<<last.u1, g>>].level = "Write"

\* The read entry points.
ReadOps ==
    {"get_record", "get_record_history", "get_record_version",
     "get_latest_record_version", "compare_record_versions", "check_access",
     "check_permission"}

\* The read a recorded invocation names returns, in the current state, what
\* the record says it returned.
ReadRepeats(call) ==
    CASE call.op = "get_record" -> get_record_result(call.id).ret = call.ret
      [] call.op = "get_record_history" ->
           get_record_history_result(call.id).ret = call.ret
      [] call.op = "get_record_version" ->
           get_record_version_result(call.id, call.n).ret = call.ret
      [] call.op = "get_latest_record_version" ->
           /\ get_latest_record_version_result(call.id).ret = call.ret
           /\ get_latest_record_version_result(call.id).val = call.val
      [] call.op = "compare_record_versions" ->
           compare_record_versions_result(call.id, call.n, call.val).ret = call.ret
      [] call.op = "check_access" -> check_access(call.u1, call.u2) = call.s
      [] call.op = "check_permission" ->
           (IF check_permission(call.u1, call.s) THEN 1 ELSE 0) = call.val
      [] OTHER -> FALSE

\* C14: a read entry point (get_record, get_record_history,
\* get_record_version, get_latest_record_version, compare_record_versions,
\* check_access, check_permission, and through them get_history, get_version,
\* latest_version and compare_versions) leaves every storage variable as it
\* was, whether it returns a value or an error, and the same read repeated in
\* the state it leaves returns the same result.
C14_ReadsDoNotWrite ==
    /\ [][last' # last /\ last'.op \in ReadOps => UNCHANGED <<storage, now>>]_vars
    /\ [](last.op \in ReadOps /\ last.at = now => ReadRepeats(last))

\* C14 witness: check_access has just read None from a stored grant that is
\* expired, the entry staying in storage, where a record exists whose reads
\* answer both values and errors.
C14_Witness ==
    /\ last.op = "check_access" /\ last.s = "None"
    /\ <<last.u1, last.u2>> \in DOMAIN grants
    /\ \E id \in DOMAIN records :
         /\ get_record_version_result(id, 1).ret = "Ok"
         /\ get_record_version_result(id, 0).ret = "VersionNotFound"
         /\ compare_record_versions_result(id, 1, 2).ret = "VersionNotFound"
    /\ \E id \in ReadIds : get_record_result(id).ret = "RecordNotFound"

\* C15: get_record, get_record_history, get_record_version,
\* get_latest_record_version and compare_record_versions answer
\* RecordNotFound exactly for the ids no add_record has created (the ids
\* outside 1..counter); for a record with n history entries
\* get_record_version answers VersionNotFound exactly for the versions outside
\* 1..n, and compare_record_versions exactly when one of its two versions is
\* outside 1..n.
C15_NotFoundOnReads ==
    \A id \in ReadIds :
      /\ id \in DOMAIN records <=> id \in 1..recCtr
      /\ get_record_result(id).ret = "RecordNotFound" <=> id \notin 1..recCtr
      /\ get_record_history_result(id).ret = "RecordNotFound" <=> id \notin 1..recCtr
      /\ get_latest_record_version_result(id).ret = "RecordNotFound"
           <=> id \notin 1..recCtr
      /\ \A a \in ReadVersions, b \in ReadVersions :
           LET n == Len(get_history(id)) IN
           /\ get_record_version_result(id, a).ret = "RecordNotFound"
                <=> id \notin 1..recCtr
           /\ compare_record_versions_result(id, a, b).ret = "RecordNotFound"
                <=> id \notin 1..recCtr
           /\ id \in 1..recCtr =>
                /\ get_record_version_result(id, a).ret = "VersionNotFound"
                     <=> a \notin 1..n
                /\ get_record_version_result(id, a).ret = "Ok" <=> a \in 1..n
                /\ compare_record_versions_result(id, a, b).ret = "VersionNotFound"
                     <=> (a \notin 1..n \/ b \notin 1..n)
                /\ compare_record_versions_result(id, a, b).ret = "Ok"
                     <=> (a \in 1..n /\ b \in 1..n)

\* C15 witness: compare_record_versions has just answered VersionNotFound for
\* an existing record with two versions, its from version existing and its to
\* version one past the last, while another id has no record.
C15_Witness ==
    /\ last.op = "compare_record_versions" /\ last.ret = "VersionNotFound"
    /\ last.id \in DOMAIN records
    /\ Len(get_history(last.id)) = 2
    /\ last.n = 1 /\ last.val = 3
    /\ get_record_version_result(last.id, 2).ret = "Ok"
    /\ \E id \in ReadIds : get_record_version_result(id, 1).ret = "RecordNotFound"

\* The entry of the stored history of a record that carries a version number.
EntryOf(record_id, version) ==
    CHOOSE e \in {get_history(record_id)[i] : i \in 1..Len(get_history(record_id))} :
      e.version = version

\* C16: for every record id up to the next unused one and every pair of
\* version numbers from 0 to one past the history's length, compare_versions
\* is None exactly when one of the two versions is not in the history; otherwise it carries the data_hash and modified_at stored
\* in the two entries and changed tells whether the two hashes differ, so a
\* version compared with itself is unchanged, changed is the same in both
\* directions, and a rollback's version compared with its target is unchanged.
C16_CompareVersions ==
    /\ \A id \in 1..(recCtr + 1) :
       \A a \in 0..(Len(get_history(id)) + 1), b \in 0..(Len(get_history(id)) + 1) :
         LET n == Len(get_history(id)) IN
         /\ compare_versions_some(id, a, b) <=> (a \in 1..n /\ b \in 1..n)
         /\ compare_versions_some(id, a, b) =>
              /\ compare_versions(id, a, b)
                   = [record_id |-> id,
                      from_version |-> a,
                      to_version |-> b,
                      from_data_hash |-> EntryOf(id, a).data_hash,
                      to_data_hash |-> EntryOf(id, b).data_hash,
                      from_modified_at |-> EntryOf(id, a).modified_at,
                      to_modified_at |-> EntryOf(id, b).modified_at,
                      changed |-> EntryOf(id, a).data_hash # EntryOf(id, b).data_hash]
              /\ compare_versions(id, a, b).changed = compare_versions(id, b, a).changed
              /\ ~compare_versions(id, a, a).changed
    /\ last.op = "rollback_record" =>
         /\ compare_versions_some(last.id, last.val, last.n)
         /\ ~compare_versions(last.id, last.val, last.n).changed

\* C16 witness: a rollback to version 1 has just appended version 3 of a
\* record whose version 2 has another hash and another timestamp: versions 1
\* and 2 compare as changed, 3 and 1 as unchanged, and version 4 is missing.
C16_Witness ==
    /\ last.op = "rollback_record" /\ last.n = 1 /\ last.val = 3
    /\ compare_versions(last.id, 1, 2).changed
    /\ compare_versions(last.id, 2, 3).changed
    /\ ~compare_versions(last.id, 3, 1).changed
    /\ compare_versions(last.id, 1, 2).from_modified_at
         # compare_versions(last.id, 1, 2).to_modified_at
    /\ ~compare_versions_some(last.id, 1, 4)

\* C17: a record, once created, stays, and its id, patient, provider,
\* record_type and created_at never change; its data_hash or updated_at changes
\* only in a successful update_record or rollback_record naming it, and every
\* such invocation appends exactly one version to its history.
C17_IdentityImmutable ==
    /\ [][\A id \in DOMAIN records :
            /\ id \in DOMAIN records'
            /\ records'[id].id = records[id].id
            /\ records'[id].patient = records[id].patient
            /\ records'[id].provider = records[id].provider
            /\ records'[id].record_type = records[id].record_type
            /\ records'[id].created_at = records[id].created_at
            /\ (\/ records'[id].data_hash # records[id].data_hash
                \/ records'[id].updated_at # records[id].updated_at)
                 => /\ Did("update_record") \/ Did("rollback_record")
                    /\ last'.id = id]_vars
    /\ [][Did("update_record") \/ Did("rollback_record") =>
            /\ last'.id \in DOMAIN records
            /\ Len(HistoryIn(history', last'.id))
                 = Len(HistoryIn(history, last'.id)) + 1]_vars
    /\ [](\A id \in DOMAIN records : records[id].id = id)

\* C17 witness: a record created by its provider has just been updated, at a
\* later ledger time and with another hash, by a caller who is not its
\* provider; its creation time and provider are the first version's.
C17_Witness ==
    /\ last.op = "update_record"
    /\ last.caller # records[last.id].provider
    /\ records[last.id].updated_at > records[last.id].created_at
    /\ records[last.id].data_hash # get_history(last.id)[1].data_hash
    /\ records[last.id].created_at = get_history(last.id)[1].modified_at
    /\ records[last.id].provider = get_history(last.id)[1].modified_by

\* C18: the existing record ids are exactly 1..get_record_count, each record
\* stored under its own id; a successful add_record returns the count plus
\* one as the new id, which no record had, and raises the count by one; the
\* count moves in no other step, so the k-th successful add_record returns k.
C18_RecordIdsAreOneToCount ==
    /\ [](/\ DOMAIN records = 1..get_record_count
          /\ \A id \in DOMAIN records : records[id].id = id)
    /\ [][Did("add_record") =>
            /\ last'.val = get_record_count + 1
            /\ last'.id = last'.val
            /\ last'.val \notin DOMAIN records
            /\ DOMAIN records' = DOMAIN records \cup {last'.val}
            /\ get_record_count' = get_record_count + 1]_vars
    /\ [][get_record_count' # get_record_count => Did("add_record")]_vars

\* C18 witness: the second successful add_record has just returned id 2 after
\* record 1 was updated in between, records 1 and 2 exist, the count is 2, and
\* an add_record by an unauthorized caller or with an empty hash would fail.
C18_Witness ==
    /\ last.op = "add_record" /\ last.val = 2
    /\ get_record_count = 2
    /\ DOMAIN records = {1, 2}
    /\ Len(get_history(1)) = 2
    /\ \E c \in Users :
         add_record_result(c, "a3", "a2", "Examination", "h1").ret = "Unauthorized"
    /\ add_record_result(last.caller, "a3", "a2", "Examination", "").ret = "InvalidInput"

\* C19: a successful add_record, update_record or rollback_record appends
\* exactly one entry to the history of the record it names and leaves every
\* other history alone; the entry's modified_by is the caller of the
\* invocation and its modified_at the ledger timestamp; add_record makes
\* version 1 with the submitted hash, update_record returns the previous
\* length plus one and stores the submitted hash, and rollback_record's entry
\* carries the hash of the target version.
C19_VersionEntryOfEachWrite ==
    [][Did("add_record") \/ Did("update_record") \/ Did("rollback_record") =>
         LET id == last'.id
             before == HistoryIn(history, id)
             after == HistoryIn(history', id)
             n == Len(before)
         IN /\ Len(after) = n + 1
            /\ SubSeq(after, 1, n) = before
            /\ after[n + 1].version = n + 1
            /\ after[n + 1].record_id = id
            /\ after[n + 1].modified_by = last'.caller
            /\ after[n + 1].modified_at = now
            /\ \A other \in RecordIds \ {id} :
                 HistoryIn(history', other) = HistoryIn(history, other)
            /\ last'.op = "add_record" =>
                 /\ n = 0
                 /\ after[1].data_hash = last'.s
            /\ last'.op = "update_record" =>
                 /\ last'.val = n + 1
                 /\ after[n + 1].data_hash = last'.s
            /\ last'.op = "rollback_record" =>
                 /\ last'.val = n + 1
                 /\ after[n + 1].data_hash = VersionIn(before, last'.n).data_hash]_vars

\* C19 witness: the record's provider created it, then updated it with
\* another hash, and at a later ledger time an admin who is neither its
\* provider nor its patient has rolled it back to version 1: version 3 is
\* signed by the admin at that time and carries version 1's hash.
C19_Witness ==
    /\ last.op = "rollback_record" /\ last.n = 1 /\ last.val = 3
    /\ LET h == get_history(last.id) IN
       /\ h[1].modified_by = records[last.id].provider
       /\ h[2].data_hash # h[1].data_hash
       /\ h[3].modified_by = last.caller
       /\ last.caller \notin {records[last.id].provider, records[last.id].patient}
       /\ h[3].modified_at = last.at
       /\ h[3].modified_at > h[1].modified_at
       /\ h[3].data_hash = h[1].data_hash

\* C20: a record id has history entries exactly when its record exists, and
\* the live record carries the data_hash of the last entry of its history and
\* that entry's modified_at as its updated_at, so get_latest_record_version
\* answers the history's length for an existing record and VersionNotFound
\* for none.
C20_LiveMatchesHead ==
    \A id \in 1..(recCtr + 1) \cup DOMAIN records \cup DOMAIN history :
      /\ Len(get_history(id)) > 0 <=> id \in DOMAIN records
      /\ id \in DOMAIN history <=> id \in DOMAIN records
      /\ get_latest_record_version_result(id).ret # "VersionNotFound"
      /\ id \in DOMAIN records =>
           LET h == get_history(id) IN
           /\ get_record_result(id).val.data_hash = h[Len(h)].data_hash
           /\ get_record_result(id).val.updated_at = h[Len(h)].modified_at
           /\ get_latest_record_version_result(id) = Ok(Len(h))

\* C20 witness: after an update and then a rollback at a later ledger time,
\* the live hash is the rollback entry's, not the hash that was live before,
\* and updated_at is the rollback's time, later than created_at; the next
\* id has neither record nor history.
C20_Witness ==
    /\ \E id \in DOMAIN records :
         LET h == get_history(id) IN
         /\ Len(h) = 3
         /\ records[id].data_hash = h[3].data_hash
         /\ records[id].data_hash # h[2].data_hash
         /\ records[id].updated_at = h[3].modified_at
         /\ records[id].updated_at > records[id].created_at
    /\ get_record_result(recCtr + 1).ret = "RecordNotFound"
    /\ get_history(recCtr + 1) = <<>>

\* C21: rollback_record checks the caller's SystemAdmin first, then the target
\* version, then the record: a caller without SystemAdmin gets Unauthorized
\* whether or not the record or the version exists; a SystemAdmin caller gets
\* VersionNotFound for a target version outside 1..n and for an id without a
\* record alike, RecordNotFound is never answered, and a rollback is carried
\* out only for a SystemAdmin caller and a version of the record's history.
C21_RollbackErrorPrecedence ==
    /\ [](\A caller \in Users, id \in RecordIds, v \in Versions :
            LET r == rollback_record_result(caller, id, v)
                n == Len(get_history(id))
                is_admin == has_permission(caller, "SystemAdmin")
            IN /\ ~is_admin => r.ret = "Unauthorized"
               /\ is_admin /\ v \notin 1..n => r.ret = "VersionNotFound"
               /\ is_admin /\ id \notin DOMAIN records => r.ret = "VersionNotFound"
               /\ is_admin /\ id \in DOMAIN records /\ v \in 1..n
                    => r.ret = "Ok" /\ r.val = n + 1
               /\ r.ret # "RecordNotFound")
    /\ [][Did("rollback_record") =>
            /\ has_permission(last'.caller, "SystemAdmin")
            /\ last'.id \in DOMAIN records
            /\ last'.n \in 1..Len(HistoryIn(history, last'.id))]_vars

\* C21 witness: a SystemAdmin caller has rolled a record back; the same
\* caller naming the version one past the record's last, version 0, or the
\* next unused id gets VersionNotFound, and a user without SystemAdmin gets
\* Unauthorized for the existing version and for the unused id alike.
C21_Witness ==
    /\ last.op = "rollback_record"
    /\ LET n == Len(get_history(last.id)) IN
       /\ rollback_record_result(last.caller, last.id, n + 1).ret = "VersionNotFound"
       /\ rollback_record_result(last.caller, last.id, 0).ret = "VersionNotFound"
       /\ rollback_record_result(last.caller, last.id, n).ret = "Ok"
    /\ recCtr + 1 \notin DOMAIN records
    /\ rollback_record_result(last.caller, recCtr + 1, 1).ret = "VersionNotFound"
    /\ \E c \in Users :
         /\ has_permission(c, "WriteRecord") /\ ~has_permission(c, "SystemAdmin")
         /\ rollback_record_result(c, last.id, 1).ret = "Unauthorized"
         /\ rollback_record_result(c, recCtr + 1, 1).ret = "Unauthorized"

\* C22: a successful update_record or rollback_record on a record changes
\* only that record's data_hash and updated_at and that record's history; a
\* successful add_record changes only the new id's record and history, the
\* counter and the named patient's record list; the records and histories of
\* every other id, the other patients' lists, the access grants and the RBAC
\* state stay as they were.
C22_PerRecordIsolation ==
    /\ [][Did("update_record") \/ Did("rollback_record") =>
            LET id == last'.id IN
            /\ DOMAIN records' = DOMAIN records
            /\ \A o \in DOMAIN records \ {id} : records'[o] = records[o]
            /\ records'[id] = [records[id] EXCEPT
                                 !.data_hash = records'[id].data_hash,
                                 !.updated_at = records'[id].updated_at]
            /\ DOMAIN history' = DOMAIN history
            /\ \A o \in DOMAIN history \ {id} : history'[o] = history[o]
            /\ UNCHANGED <<initialized, admin, rbacVars, recCtr, patRecs, grants>>]_vars
    /\ [][Did("add_record") =>
            LET id == last'.id
                patient == last'.u1
            IN
            /\ id \notin DOMAIN records /\ id \notin DOMAIN history
            /\ DOMAIN records' = DOMAIN records \cup {id}
            /\ \A o \in DOMAIN records : records'[o] = records[o]
            /\ DOMAIN history' = DOMAIN history \cup {id}
            /\ \A o \in DOMAIN history : history'[o] = history[o]
            /\ recCtr' = recCtr + 1
            /\ DOMAIN patRecs' = DOMAIN patRecs \cup {patient}
            /\ \A q \in DOMAIN patRecs \ {patient} : patRecs'[q] = patRecs[q]
            /\ patRecs'[patient]
                 = Append(IF patient \in DOMAIN patRecs THEN patRecs[patient] ELSE <<>>,
                          id)
            /\ UNCHANGED <<initialized, admin, rbacVars, grants>>]_vars

\* C22 witness: records of two patients exist next to a stored access grant
\* and a registered provider; the first record has just been updated with
\* another hash while the second still has its single version and the hash it
\* was created with, and each patient's list holds its own record id.
C22_Witness ==
    /\ last.op = "update_record" /\ last.id = 1
    /\ DOMAIN records = {1, 2}
    /\ records[1].patient # records[2].patient
    /\ Len(get_history(1)) = 2 /\ Len(get_history(2)) = 1
    /\ records[1].data_hash # get_history(1)[1].data_hash
    /\ records[2].data_hash = get_history(2)[1].data_hash
    /\ patRecs[records[1].patient] = <<1>> /\ patRecs[records[2].patient] = <<2>>
    /\ DOMAIN grants # {}
    /\ "a2" \in DOMAIN roleOf

=============================================================================
